---- MODULE Spec2Model ----
(***************************************************************************)
(* Model of server.js of ipa-resign-app: the /api/sign upload pipeline     *)
(* (multer disk storage, file filter, the route handler, the zsign child   *)
(* process and its completion callback), the artifact registry             *)
(* (GET /api/files, DELETE /api/files/:filename) and the install manifest  *)
(* (GET /api/manifest/:filename) over a small file system.                 *)
(***************************************************************************)
EXTENDS Integers, Sequences, FiniteSets, TLC

\* ------------------------------------------------------------ bounds
MaxReqs == 2          \* /api/sign requests that may be in flight
MaxTime == 1          \* Date.now() ranges over 0..MaxTime
MaxOutSize == 1       \* byte lengths the tool may give an output file: 1..MaxOutSize

\* ------------------------------------------------------------ configuration
\* MAX_FILE_SIZE, in GiB
MAX_FILE_SIZE == 2

Reqs == 1..MaxReqs
Times == 0..MaxTime

\* the three file fields of upload.fields([...]), each with maxCount 1
Fields == {"ipa", "certificate", "provision"}

\* fileFilter's allowedExtensions
allowedExtensions == {".ipa", ".p12", ".mobileprovision"}

\* String.prototype.toLowerCase on the extensions that occur
toLowerCase(e) ==
  CASE e = ".IPA" -> ".ipa"
    [] e = ".P12" -> ".p12"
    [] OTHER -> e

\* ------------------------------------------------------------ inputs
\* An original file name, as path.parse splits it: name and ext.
NoName == [base |-> "-", ext |-> "-"]

\* the file parts a client may send: a file of the proper kind in each field, a
\* profile in the certificate field, and a file of no permitted kind
Parts ==
  { <<"ipa", [base |-> "a", ext |-> ".ipa"]>>,
    <<"certificate", [base |-> "b", ext |-> ".p12"]>>,
    <<"certificate", [base |-> "d", ext |-> ".mobileprovision"]>>,
    <<"provision", [base |-> "c", ext |-> ".mobileprovision"]>>,
    <<"provision", [base |-> "x", ext |-> ".txt"]>> }

\* sizes of an uploaded file part, in GiB: one within the limit, one over it
UploadSizes == {1, MAX_FILE_SIZE + 1}

\* values a client may put in the text field sessionId
SessionIds == {"s1"}
NoSid == "-"

\* stderr texts of the tool ("" is an empty stderr)
StderrTexts == {"", "zsign: bad certificate"}

\* exit codes of the tool
ExitCodes == {0, 1}

\* error.message of child_process.exec for a failed command
ExecErrorMessage == "Command failed: zsign"

\* ------------------------------------------------------------ paths
\* path.extname(file.originalname), path.parse(file.originalname).name
extname(n) == n.ext
parseName(n) == n.base

\* a directory under UPLOAD_DIR: named by a client sessionId, or by a fresh
\* uuidv4() (one call per stored file, so named here by request and field)
SidDir(s) == [k |-> "sid", id |-> s, r |-> 0, f |-> "-"]
UuidDir(r, f) == [k |-> "uuid", id |-> "-", r |-> r, f |-> f]
NoDir == [k |-> "-", id |-> "-", r |-> 0, f |-> "-"]

NoFile == [present |-> FALSE, dir |-> NoDir, name |-> NoName]

\* names in OUTPUT_DIR: `${name}_signed_${Date.now()}.ipa`
OutName(b, t) == [base |-> b, ts |-> t, ext |-> ".ipa"]
NoOut == [base |-> "-", ts |-> 0, ext |-> "-"]

\* a file of OUTPUT_DIR that is no IPA: the directory is only made when it
\* does not exist, and may hold what was put there before the server started
KeepFile == [base |-> ".gitkeep", ts |-> 0, ext |-> ""]

\* the :filename parameter after Express decodes it: the name of an artifact,
\* "../uploads/s1/a.ipa" (sent as ..%2Fuploads%2Fs1%2Fa.ipa), which path.join
\* resolves to a file of the upload directory, or "../uploads/s1", which it
\* resolves to a directory of the upload directory
Traversal == [base |-> "../uploads/s1/a", ts |-> 0, ext |-> ".ipa"]
TraversalDir == SidDir("s1")
TraversalName == [base |-> "a", ext |-> ".ipa"]
TraversalUp == [base |-> "../uploads/s1", ts |-> 0, ext |-> ""]
FileParams == {OutName("a", 0), Traversal, TraversalUp}

\* ------------------------------------------------------------ command text
\* A text is a sequence of symbols: a double quote, a space, or a run of
\* characters that are neither (a word, or a stored path, none of whose
\* characters is special to the shell).
Quote == [k |-> "quote", v |-> [text |-> "dq"]]
Space == [k |-> "space", v |-> [text |-> "sp"]]
Word(t) == [k |-> "chars", v |-> [text |-> t]]
PathText(p) == [k |-> "chars", v |-> p]

\* values a client may put in the text field password: none, a plain one, and
\* one that holds a double quote:  pw" "x
Passwords == { <<>>, <<Word("pw")>>, <<Word("pw"), Quote, Space, Quote, Word("x")>> }

\* values a client may put in the text field bundleId
BundleIds == { <<>>, <<Word("com.example.app")>> }

ZSIGN_PATH == Word("zsign")
OUTPUT_DIR == [k |-> "output", id |-> "-", r |-> 0, f |-> "-"]

\* What /bin/sh -c (child_process.exec) makes of a command text: words are
\* split at spaces outside double quotes, the quotes themselves are removed,
\* and a text whose last quote is not closed is a syntax error: nothing runs.
RECURSIVE shellSplit(_, _, _, _, _)
shellSplit(cmd, words, cur, inWord, inQuote) ==
  IF cmd = <<>>
    THEN IF inQuote THEN <<>>
         ELSE IF inWord THEN Append(words, cur) ELSE words
    ELSE LET c == Head(cmd) IN
         IF c.k = "quote"
           THEN shellSplit(Tail(cmd), words, cur, TRUE, ~ inQuote)
         ELSE IF c.k = "space" /\ ~ inQuote
           THEN shellSplit(Tail(cmd), IF inWord THEN Append(words, cur) ELSE words,
                           <<>>, FALSE, FALSE)
         ELSE shellSplit(Tail(cmd), words, Append(cur, c), TRUE, inQuote)

\* the argument vector the shell gives the tool
shellWords(cmd) == shellSplit(cmd, <<>>, <<>>, FALSE, FALSE)

\* ------------------------------------------------------------ addresses
\* DOMAIN: process.env.DOMAIN || `http://localhost:${PORT}`
Domain == "http://localhost:3000"

\* An address `${DOMAIN}${route}${file}`, kept as its three pieces.
NoUrl == [domain |-> "-", route |-> "-", file |-> NoOut]

\* encodeURIComponent of a piece of text: ":" and "/" are escaped, letters,
\* digits, "." and "_" are kept
encodeText(s) ==
  CASE s = Domain -> "http%3A%2F%2Flocalhost%3A3000"
    [] s = "/output/" -> "%2Foutput%2F"
    [] s = "/api/manifest/" -> "%2Fapi%2Fmanifest%2F"
    [] OTHER -> s

\* encodeURIComponent left out: the address embedded as it is
encodeURIComponent_Raw(u) == u

\* encodeURIComponent of an address
encodeURIComponent(u) ==
  [domain |-> encodeText(u.domain), route |-> encodeText(u.route),
   file |-> [u.file EXCEPT !.base = encodeText(@)]]

\* downloadUrl of the sign response: `${DOMAIN}/output/${outputFileName}`
signDownloadUrl(fn) == [domain |-> Domain, route |-> "/output/", file |-> fn]

\* `${DOMAIN}/api/manifest/${outputFileName}`
manifestAddress(fn) == [domain |-> Domain, route |-> "/api/manifest/", file |-> fn]

\* installUrl: `itms-services://?action=download-manifest&url=${encodeURIComponent(...)}`
NoInstall == [scheme |-> "-", url |-> NoUrl]
installUrl(fn) ==
  [scheme |-> "itms-services://?action=download-manifest&url=",
   url |-> encodeURIComponent(manifestAddress(fn))]

\* downloadUrl of a listing entry: `${DOMAIN}/output/${file}`
listDownloadUrl(fn) == [domain |-> Domain, route |-> "/output/", file |-> fn]

\* ipaUrl of the manifest: `${DOMAIN}/output/${filename}`
ipaUrl(fn) == [domain |-> Domain, route |-> "/output/", file |-> fn]

\* ------------------------------------------------------------ responses
\* What res.json / res.status(...).json / res.send sends. to: the /api/sign
\* request it answers (0: a registry request); fileName, size, downloadUrl and
\* installUrl: data of a signed IPA (fileName also: the :filename of a DELETE or
\* of a manifest); files: the listing of GET /api/files; assetUrl: the url of
\* the software-package asset of a manifest. A step that calls exec is recorded
\* here too (op "exec"): the password and bundleId of the body and the argument
\* vector the shell makes of the command.
NoResp ==
  [to |-> 0, op |-> "none", status |-> 0, success |-> FALSE, error |-> "-",
   details |-> "-", hasData |-> FALSE, fileName |-> NoOut, size |-> 0, files |-> <<>>,
   downloadUrl |-> NoUrl, installUrl |-> NoInstall, assetUrl |-> NoUrl,
   password |-> <<>>, bundleId |-> <<>>, argv |-> <<>>]

ErrorJson(r, st, msg, det) ==
  [NoResp EXCEPT !.to = r, !.op = "sign", !.status = st, !.error = msg, !.details = det]

SuccessJson(r, fn, sz) ==
  [NoResp EXCEPT !.to = r, !.op = "sign", !.status = 200, !.success = TRUE,
                 !.hasData = TRUE, !.fileName = fn, !.size = sz,
                 !.downloadUrl = signDownloadUrl(fn), !.installUrl = installUrl(fn)]

MissingFilesError == "Missing required files"
SignFailedError == "Failed to sign IPA"
InvalidTypeError == "Invalid file type"
FileTooLargeError == "File too large"
UnexpectedFieldError == "Unexpected field"
NotFoundError == "File not found"
\* error.message of fs.unlinkSync on a directory
IsDirectoryError == "EISDIR: illegal operation on a directory, unlink"

\* ------------------------------------------------------------ state
VARIABLES
  now,       \* Date.now()
  up,        \* the server process is running
  req,       \* per /api/sign request: its progress and what it holds
  upDirs,    \* directories that exist under UPLOAD_DIR
  upFiles,   \* files under UPLOAD_DIR: [dir, name, owner]
  outDir,    \* files in OUTPUT_DIR: [name, size, birth]
  res        \* the response the last step sent (NoResp: it sent none)

vars == <<now, up, req, upDirs, upFiles, outDir, res>>

InitReq ==
  [pc |-> "idle", sid |-> NoSid, sent |-> {}, files |-> [f \in Fields |-> NoFile],
   dirs |-> {}, outName |-> NoOut, invoked |-> 0, exit |-> 0, stderr |-> ""]

Init ==
  /\ now = 0
  /\ up = TRUE
  /\ req = [r \in Reqs |-> InitReq]
  /\ upDirs = {}
  /\ upFiles = {}
  /\ outDir = {[name |-> KeepFile, size |-> 0, birth |-> 0]}
  /\ res = NoResp

\* ------------------------------------------------------------ file system
existsUpload(d, n) == \E x \in upFiles : x.dir = d /\ x.name = n
OutFileNames == { x.name : x \in outDir }
existsOut(n) == n \in OutFileNames

\* fs.unlinkSync of each path in a set of [dir, name] paths
Unlinked(files, paths) ==
  { x \in files : ~ \E p \in paths : p.dir = x.dir /\ p.name = x.name }

\* fs.rmSync(dir, {recursive, force})
RmDirFiles(files, d) == { x \in files : x.dir # d }

\* a write stream to dir/name: creates or replaces the file
Written(files, d, n, r) ==
  { x \in files : ~ (x.dir = d /\ x.name = n) } \cup {[dir |-> d, name |-> n, owner |-> r]}

\* ------------------------------------------------------------ multer
\* storage.destination: req.body.sessionId || uuidv4(), joined to UPLOAD_DIR
destination(r, f) ==
  IF req[r].sid # NoSid THEN SidDir(req[r].sid) ELSE UuidDir(r, f)

\* upload.fileFilter: the lower-cased extension must be an allowed one
fileFilter(n) == toLowerCase(extname(n)) \in allowedExtensions

\* limits.fileSize
withinLimit(sz) == sz <= MAX_FILE_SIZE

\* [dir, name] of every file multer has stored for the request
StoredPaths(r) ==
  { [dir |-> req[r].files[f].dir, name |-> req[r].files[f].name] :
      f \in { g \in Fields : req[r].files[g].present } }

\* A client connects and starts a multipart POST /api/sign. (Requests are
\* numbered in the order they arrive.)
Arrive(r) ==
  /\ up
  /\ req[r].pc = "idle"
  /\ \A q \in Reqs : q < r => req[q].pc # "idle"
  /\ req' = [req EXCEPT ![r].pc = "upload"]
  /\ res' = NoResp
  /\ UNCHANGED <<now, up, upDirs, upFiles, outDir>>

\* The text part sessionId of the body reaches multer, which puts it in req.body;
\* the file parts after it see it in storage.destination. (A client that sends
\* the field sends it first.)
SendSessionId(r, s) ==
  /\ up
  /\ req[r].pc = "upload"
  /\ req[r].sid = NoSid
  /\ req[r].sent = {}
  /\ req' = [req EXCEPT ![r].sid = s]
  /\ res' = NoResp
  /\ UNCHANGED <<now, up, upDirs, upFiles, outDir>>

\* multer aborts the upload with an error: it removes the files it stored for
\* the request (not their directories) and passes the error to the error
\* handling middleware, which answers error.status || 500.
Aborted(r, f, files, dirs, used, msg) ==
  /\ upFiles' = Unlinked(files, StoredPaths(r))
  /\ upDirs' = dirs
  /\ req' = [req EXCEPT ![r].pc = "done",
                        ![r].sent = @ \cup {f},
                        ![r].dirs = @ \cup used,
                        ![r].files = [g \in Fields |-> NoFile]]
  /\ res' = ErrorJson(r, 500, msg, "-")

\* One file part (field f, original name n, size sz) of the body reaches multer.
UploadPart(r, f, n, sz) ==
  /\ up
  /\ req[r].pc = "upload"
  /\ LET d == destination(r, f) IN
     IF req[r].files[f].present
       THEN \* maxCount 1 of the field is used up: LIMIT_UNEXPECTED_FILE
            Aborted(r, f, upFiles, upDirs, {}, UnexpectedFieldError)
     ELSE IF ~ fileFilter(n)
       THEN Aborted(r, f, upFiles, upDirs, {}, InvalidTypeError)
     ELSE IF ~ withinLimit(sz)
       THEN \* the directory is made and the file begun before the limit is
            \* hit: LIMIT_FILE_SIZE, and the partial file is removed
            Aborted(r, f, Unlinked(upFiles, {[dir |-> d, name |-> n]}),
                    upDirs \cup {d}, {d}, FileTooLargeError)
     ELSE /\ upDirs' = upDirs \cup {d}
          /\ upFiles' = Written(upFiles, d, n, r)
          /\ req' = [req EXCEPT ![r].sent = @ \cup {f},
                                ![r].dirs = @ \cup {d},
                                ![r].files[f] = [present |-> TRUE, dir |-> d, name |-> n]]
          /\ res' = NoResp
  /\ UNCHANGED <<now, up, outDir>>

\* ------------------------------------------------------------ POST /api/sign
\* if (!req.files || !req.files.ipa || !req.files.certificate || !req.files.provision)
missingFiles(r) == \E f \in Fields : ~ req[r].files[f].present

\* `${path.parse(ipaFile.originalname).name}_signed_${Date.now()}.ipa`
outputFileName(r) == OutName(parseName(req[r].files["ipa"].name), now)

\* path.join(OUTPUT_DIR, outputFileName), file.path
outputPath(r) == [dir |-> OUTPUT_DIR, name |-> outputFileName(r)]
storedPath(r, f) == [dir |-> req[r].files[f].dir, name |-> req[r].files[f].name]

\* a text between double quotes, after a space:  ` "${text}"`
quoted(text) == <<Space, Quote>> \o text \o <<Quote>>

\* zsignCmd: `${ZSIGN_PATH} -k "${certFile.path}"`, ` -p "${password}"` if
\* (password), ` -m "${provisionFile.path}"`, ` -b "${bundleId}"` if (bundleId),
\* ` -o "${outputPath}" "${ipaFile.path}"`
zsignCmd(r, password, bundleId) ==
  <<ZSIGN_PATH, Space, Word("-k")>> \o quoted(<<PathText(storedPath(r, "certificate"))>>)
  \o (IF password # <<>> THEN <<Space, Word("-p")>> \o quoted(password) ELSE <<>>)
  \o <<Space, Word("-m")>> \o quoted(<<PathText(storedPath(r, "provision"))>>)
  \o (IF bundleId # <<>> THEN <<Space, Word("-b")>> \o quoted(bundleId) ELSE <<>>)
  \o <<Space, Word("-o")>> \o quoted(<<PathText(outputPath(r))>>)
  \o quoted(<<PathText(storedPath(r, "ipa"))>>)

\* The body has ended and multer calls the route handler with the text fields
\* password and bundleId in req.body: it answers 400 when a file is missing,
\* and otherwise builds the command and calls exec.
SignHandler(r, password, bundleId) ==
  /\ up
  /\ req[r].pc = "upload"
  /\ IF missingFiles(r)
       THEN /\ req' = [req EXCEPT ![r].pc = "done"]
            /\ res' = ErrorJson(r, 400, MissingFilesError, "-")
       ELSE /\ req' = [req EXCEPT ![r].pc = "running",
                                  ![r].outName = outputFileName(r),
                                  ![r].invoked = @ + 1]
            /\ res' = [NoResp EXCEPT !.op = "exec", !.to = r,
                                     !.password = password, !.bundleId = bundleId,
                                     !.argv = shellWords(zsignCmd(r, password, bundleId))]
  /\ UNCHANGED <<now, up, upDirs, upFiles, outDir>>

\* zsign -o outputPath: the file at the output path after a successful run
ToolOutput(files, n, sz) ==
  IF \E x \in files : x.name = n
    THEN { IF x.name = n THEN [x EXCEPT !.size = sz] ELSE x : x \in files }
    ELSE files \cup {[name |-> n, size |-> sz, birth |-> now]}

\* The zsign process exits: zero after writing the output file, or nonzero
\* with some text on stderr, having left a part of the output file at the
\* output path (left) or nothing.
ToolExit(r, code, err, sz, left) ==
  /\ req[r].pc = "running"
  /\ IF code = 0
       THEN /\ outDir' = ToolOutput(outDir, req[r].outName, sz)
            /\ req' = [req EXCEPT ![r].pc = "exited", ![r].exit = 0, ![r].stderr = ""]
       ELSE /\ outDir' = IF left THEN ToolOutput(outDir, req[r].outName, sz) ELSE outDir
            /\ req' = [req EXCEPT ![r].pc = "exited", ![r].exit = code, ![r].stderr = err]
  /\ res' = NoResp
  /\ UNCHANGED <<now, up, upDirs, upFiles>>

\* cleanupFiles = [ipaFile.path, certFile.path, provisionFile.path]
cleanupFiles(r) == StoredPaths(r)

\* sessionDir = path.dirname(ipaFile.path)
sessionDir(r) == req[r].files["ipa"].dir

\* details: error.message only (the stderr text dropped)
errorDetails_MessageOnly(r) == ExecErrorMessage

\* details: stderr || error.message
errorDetails(r) == IF req[r].stderr # "" THEN req[r].stderr ELSE ExecErrorMessage

\* size: fs.existsSync(outputPath) ? fs.statSync(outputPath).size : 0
outputSize(r) ==
  IF existsOut(req[r].outName)
    THEN (CHOOSE x \in outDir : x.name = req[r].outName).size
    ELSE 0

\* the response of the exec callback
signResponse(r) ==
  IF req[r].exit # 0
    THEN ErrorJson(r, 500, SignFailedError, errorDetails(r))
    ELSE SuccessJson(r, req[r].outName, outputSize(r))

\* upload files and directories after the callback's cleanup
cleanedFiles(r) ==
  LET unlinked == Unlinked(upFiles, cleanupFiles(r)) IN
  IF sessionDir(r) \in upDirs THEN RmDirFiles(unlinked, sessionDir(r)) ELSE unlinked

cleanedDirs(r) == upDirs \ {sessionDir(r)}

\* The callback of exec: clean up, then answer.
ExecCallback(r) ==
  /\ up
  /\ req[r].pc = "exited"
  /\ upFiles' = cleanedFiles(r)
  /\ upDirs' = cleanedDirs(r)
  /\ req' = [req EXCEPT ![r].pc = "done"]
  /\ res' = signResponse(r)
  /\ UNCHANGED <<now, up, outDir>>

\* A file system call of the callback throws (EACCES, EBUSY, EIO ...): the
\* callback runs outside the handler's try/catch, so the exception is
\* uncaught and ends the process. at = "unlink": the first unlinkSync throws;
\* "rm": rmSync throws after the files were unlinked; "stat": statSync throws
\* after the cleanup.
ExecCallbackThrows(r, at) ==
  /\ up
  /\ req[r].pc = "exited"
  /\ at = "stat" => req[r].exit = 0 /\ existsOut(req[r].outName)
  /\ at = "unlink" => \E p \in cleanupFiles(r) : existsUpload(p.dir, p.name)
  /\ at = "rm" => sessionDir(r) \in upDirs
  /\ upFiles' = CASE at = "unlink" -> upFiles
                  [] at = "rm" -> Unlinked(upFiles, cleanupFiles(r))
                  [] OTHER -> cleanedFiles(r)
  /\ upDirs' = IF at = "stat" THEN cleanedDirs(r) ELSE upDirs
  /\ up' = FALSE
  /\ res' = NoResp
  /\ UNCHANGED <<now, req, outDir>>

\* ------------------------------------------------------------ registry
\* String.prototype.endsWith('.ipa') of a name of OUTPUT_DIR
endsWithIpa(n) == n.ext = ".ipa"

\* the listing without its filter: an entry for every name of readdirSync
listEntries_Unfiltered ==
  { [name |-> x.name, size |-> x.size, created |-> x.birth,
     downloadUrl |-> listDownloadUrl(x.name)] : x \in outDir }

\* .filter(file => file.endsWith('.ipa')).map(file => ({name, size, created, downloadUrl}))
listEntries ==
  { [name |-> x.name, size |-> x.size, created |-> x.birth,
     downloadUrl |-> listDownloadUrl(x.name)] : x \in { y \in outDir : endsWithIpa(y.name) } }

\* .sort((a, b) => b.created - a.created): newest first, ties in readdir order
sortedListings ==
  { s \in [1..Cardinality(listEntries) -> listEntries] :
      /\ \A i, j \in DOMAIN s : i # j => s[i] # s[j]
      /\ \A i, j \in DOMAIN s : i < j => s[i].created >= s[j].created }

\* GET /api/files
ListFiles ==
  /\ up
  /\ \E s \in sortedListings :
       res' = [NoResp EXCEPT !.op = "list", !.status = 200, !.success = TRUE, !.files = s]
  /\ UNCHANGED <<now, up, req, upDirs, upFiles, outDir>>

\* path.join(OUTPUT_DIR, filename) lies in OUTPUT_DIR
insideOutput(p) == p \notin {Traversal, TraversalUp}

\* path.join(OUTPUT_DIR, filename) names a directory
isDirectory(p) == p = TraversalUp

\* fs.existsSync(filePath)
existsParam(p) ==
  CASE p = Traversal -> existsUpload(TraversalDir, TraversalName)
    [] p = TraversalUp -> TraversalDir \in upDirs
    [] OTHER -> existsOut(p)

\* DELETE /api/files/:filename: 404 when nothing is at the path; otherwise
\* fs.unlinkSync, whose exception on a directory the catch answers with 500
DeleteFile(p) ==
  /\ up
  /\ IF ~ existsParam(p)
       THEN /\ res' = [NoResp EXCEPT !.op = "delete", !.fileName = p, !.status = 404,
                                     !.error = NotFoundError]
            /\ UNCHANGED <<outDir, upFiles>>
     ELSE IF isDirectory(p)
       THEN /\ res' = [NoResp EXCEPT !.op = "delete", !.fileName = p, !.status = 500,
                                     !.error = IsDirectoryError]
            /\ UNCHANGED <<outDir, upFiles>>
       ELSE /\ res' = [NoResp EXCEPT !.op = "delete", !.fileName = p, !.status = 200,
                                     !.success = TRUE]
            /\ outDir' = IF insideOutput(p) THEN { x \in outDir : x.name # p } ELSE outDir
            /\ upFiles' = IF insideOutput(p) THEN upFiles
                          ELSE Unlinked(upFiles, {[dir |-> TraversalDir, name |-> TraversalName]})
  /\ UNCHANGED <<now, up, req, upDirs>>

\* ------------------------------------------------------------ manifest
\* the :filename parameters of GET /api/manifest/:filename
ManifestParams == {OutName("a", 0)}

\* GET /api/manifest/:filename: the plist is built from the parameter alone and
\* sent (res.send: status 200); OUTPUT_DIR is not looked at.
Manifest(p) ==
  /\ up
  /\ res' = [NoResp EXCEPT !.op = "manifest", !.status = 200, !.fileName = p,
                            !.assetUrl = ipaUrl(p)]
  /\ UNCHANGED <<now, up, req, upDirs, upFiles, outDir>>

\* ------------------------------------------------------------ clock
Tick ==
  /\ up
  /\ now < MaxTime
  /\ now' = now + 1
  /\ res' = NoResp
  /\ UNCHANGED <<up, req, upDirs, upFiles, outDir>>

Next ==
  \/ Tick
  \/ \E r \in Reqs : Arrive(r)
  \/ \E r \in Reqs, s \in SessionIds : SendSessionId(r, s)
  \/ \E r \in Reqs, p \in Parts, sz \in UploadSizes : UploadPart(r, p[1], p[2], sz)
  \/ \E r \in Reqs, pw \in Passwords, b \in BundleIds : SignHandler(r, pw, b)
  \/ \E r \in Reqs, code \in ExitCodes, err \in StderrTexts, sz \in 1..MaxOutSize,
          left \in BOOLEAN : ToolExit(r, code, err, sz, left)
  \/ \E r \in Reqs : ExecCallback(r)
  \/ ListFiles
  \/ \E p \in FileParams : DeleteFile(p)
  \/ \E p \in ManifestParams : Manifest(p)

\* the program on a file system whose calls do not fail
Spec == Init /\ [][Next]_vars

\* the program on a file system whose calls may fail inside the exec callback
NextFs ==
  \/ Next
  \/ \E r \in Reqs, at \in {"unlink", "rm", "stat"} : ExecCallbackThrows(r, at)

SpecFs == Init /\ [][NextFs]_vars

\* ------------------------------------------------------------ claims
InFlight(r) == req[r].pc \in {"upload", "running", "exited"}
Answered(r) == req[r].pc = "done"
\* the last step answered /api/sign request r
AnswersSign(r) == res.op = "sign" /\ res.to = r
\* request r holds a stored file in each of the three fields
HasAllFiles(r) == ~ missingFiles(r)
\* the step is the exec callback of request r
CallbackStep(r) == req[r].pc = "exited" /\ req'[r].pc = "done"
\* the step is the exit of the tool of request r
ExitStep(r) == req[r].pc = "running" /\ req'[r].pc = "exited"

\* C1: once a /api/sign request whose tool was invoked has been answered, none
\* of its three uploaded files and none of the directories made under the
\* upload directory for its files still exists.
C1_SignCleanup ==
  \A r \in Reqs :
    (Answered(r) /\ req[r].invoked > 0) =>
      /\ \A p \in StoredPaths(r) : ~ existsUpload(p.dir, p.name)
      /\ req[r].dirs \cap upDirs = {}

\* C2: no two in-flight requests store their uploads in the same session
\* directory, and the cleanup of one request never removes a file uploaded by
\* another request whose tool has not yet finished.
C2_SessionIsolation ==
  /\ [](\A r, q \in Reqs :
          (r # q /\ InFlight(r) /\ InFlight(q)) => req[r].dirs \cap req[q].dirs = {})
  /\ [][\A r, q \in Reqs :
          (r # q /\ CallbackStep(r) /\ req[q].pc \in {"upload", "running"}) =>
            \A x \in upFiles : x.owner = q => x \in upFiles']_vars

\* C3: a /api/sign request in which one of the three file fields is absent is
\* answered 400 with success=false, and the tool is never invoked for it.
C3_MissingFile400 ==
  \A r \in Reqs :
    (req[r].pc # "idle" /\ req[r].sent # Fields) =>
      /\ req[r].invoked = 0
      /\ AnswersSign(r) => (res.status = 400 /\ ~ res.success)
      /\ req[r].pc \in {"upload", "done"}

\* C4: for a /api/sign request carrying all three files the tool is invoked
\* exactly once, and when that invocation succeeds the output directory holds
\* exactly one file more than before, named <package base name>_signed_<timestamp>.ipa.
C4_InvokedOnceOneNewFile ==
  /\ [](\A r \in Reqs :
          /\ req[r].invoked <= 1
          /\ (HasAllFiles(r) /\ req[r].pc \in {"running", "exited", "done"}) =>
               req[r].invoked = 1)
  /\ [][\A r \in Reqs :
          (ExitStep(r) /\ req'[r].exit = 0) =>
            /\ req[r].outName = OutName(parseName(req[r].files["ipa"].name), req[r].outName.ts)
            /\ req[r].outName \notin OutFileNames
            /\ { x.name : x \in outDir' } = OutFileNames \cup {req[r].outName}]_vars

\* C5: every error raised while handling a request, a file system error inside
\* the exec callback included, becomes a JSON error response, and the server
\* process keeps running.
C5_ServerKeepsRunning == up

\* C6 (as claimed): when the tool exits nonzero the response is 500 with
\* success=false, its details are the tool's diagnostic output (stderr)
\* unmodified and it carries no success result; a success response is sent
\* only when the tool exited zero.
C6_DetailsAreStderr ==
  \A r \in Reqs :
    (AnswersSign(r) /\ req[r].invoked > 0) =>
      /\ req[r].exit # 0 =>
           (res.status = 500 /\ ~ res.success /\ ~ res.hasData /\ res.details = req[r].stderr)
      /\ res.success => req[r].exit = 0

\* C6 (amended): when the tool exits nonzero the response is 500 with
\* success=false and no success result, and its details are the tool's stderr
\* unmodified when stderr is not empty and the error message of exec when it
\* is; a success response is sent only when the tool exited zero.
C6_FailureResponse ==
  \A r \in Reqs :
    (AnswersSign(r) /\ req[r].invoked > 0) =>
      /\ req[r].exit # 0 =>
           /\ res.status = 500 /\ ~ res.success /\ ~ res.hasData
           /\ req[r].stderr # "" => res.details = req[r].stderr
           /\ req[r].stderr = "" => res.details = ExecErrorMessage
      /\ res.success => (req[r].exit = 0 /\ res.status = 200)

\* a failed sign with text on stderr has just been answered
C6_Witness ==
  \E r \in Reqs :
    /\ AnswersSign(r) /\ req[r].invoked = 1 /\ req[r].exit # 0
    /\ req[r].stderr # "" /\ res.details = req[r].stderr

\* C7: a /api/sign request with a file part of a disallowed extension, or one
\* over the size limit, is answered 400; no later part of it is stored and the
\* tool is not invoked.
C7_RejectedUpload400 ==
  /\ [](\A r \in Reqs :
          (AnswersSign(r) /\ res.error \in {InvalidTypeError, FileTooLargeError}) =>
            (res.status = 400 /\ req[r].invoked = 0))
  /\ [][\A r \in Reqs :
          Answered(r) => \A x \in upFiles' : x.owner = r => x \in upFiles]_vars

\* C8: DELETE /api/files/:filename answers 404 and leaves the output directory
\* as it is when the named file is not in the output directory; otherwise it
\* removes that file and no other and reports success, and a later listing
\* holds only files that are in the output directory.
C8_DeleteContract ==
  [][/\ res'.op = "delete" =>
          IF res'.fileName \notin OutFileNames
            THEN res'.status = 404 /\ outDir' = outDir
            ELSE /\ res'.status = 200 /\ res'.success
                 /\ outDir' = { x \in outDir : x.name # res'.fileName }
     /\ res'.op = "list" =>
          \A i \in DOMAIN res'.files : res'.files[i].name \in { x.name : x \in outDir' }]_vars

\* C9: after a /api/sign request has been answered, the 400 "missing required
\* files" answer included, no file it uploaded and no directory made for it
\* remains in the upload directory.
C9_NothingLeftBehind ==
  \A r \in Reqs :
    Answered(r) =>
      /\ \A x \in upFiles : x.owner # r
      /\ req[r].dirs \cap upDirs = {}

\* C10: the tool is invoked only when the ipa field holds a .ipa file, the
\* certificate field a .p12 file and the provision field a .mobileprovision file.
C10_ProperKinds ==
  \A r \in Reqs :
    req[r].invoked > 0 =>
      /\ toLowerCase(extname(req[r].files["ipa"].name)) = ".ipa"
      /\ toLowerCase(extname(req[r].files["certificate"].name)) = ".p12"
      /\ toLowerCase(extname(req[r].files["provision"].name)) = ".mobileprovision"

\* C11: GET /api/manifest/:filename answers 404 whenever the named artifact is
\* not in the output directory; a manifest is returned only for an artifact
\* that exists.
C11_ManifestOnlyForArtifact ==
  res.op = "manifest" =>
    IF existsOut(res.fileName) THEN res.status = 200 ELSE res.status = 404

\* C12: a /api/sign request whose tool was invoked gets exactly one response,
\* never before its tool has exited; once the tool has exited the response is
\* still to come (the callback that sends it can run); and while a tool runs
\* the server can serve a list, a delete and the handler of another sign.
C12_OneResponseAfterExit ==
  /\ [][\A r \in Reqs :
          (res'.op = "sign" /\ res'.to = r /\ req[r].invoked > 0) =>
            (req[r].pc = "exited" /\ req'[r].pc = "done")]_vars
  /\ [](\A r \in Reqs :
          /\ req[r].pc = "done" => ~ ENABLED ExecCallback(r)
          /\ req[r].pc = "exited" => ENABLED ExecCallback(r)
          /\ req[r].pc = "running" =>
               /\ ENABLED ListFiles
               /\ \A p \in FileParams : ENABLED DeleteFile(p)
               /\ \A q \in Reqs : req[q].pc = "upload" => ENABLED SignHandler(q, <<>>, <<>>))

\* C13: whatever the :filename parameter, ".." segments and encoded separators
\* included, DELETE /api/files/:filename tests for and removes only a file
\* directly inside the output directory: it removes no file outside it, and it
\* reports a removal only of a file that was in the output directory.
C13_DeleteStaysInOutput ==
  [][res'.op = "delete" =>
       /\ upFiles' = upFiles
       /\ res'.status = 200 => (res'.fileName \in OutFileNames /\ res'.fileName \notin { x.name : x \in outDir' })]_vars

\* C14: a success response of /api/sign is sent only if the output file is at
\* the output path when the response is built, and the size it reports is the
\* byte length of that file; a sign that left no output file is not reported
\* as a success.
C14_SuccessMeansOutput ==
  \A r \in Reqs :
    (AnswersSign(r) /\ res.success) =>
      \E x \in outDir : x.name = res.fileName /\ x.size = res.size

\* C15: after any sequence of sign and delete operations GET /api/files
\* returns exactly one entry for each file of the output directory whose name
\* ends with .ipa and no entry for any other file, ordered by creation time,
\* newest first.
C15_ListingIsTheIpaFiles ==
  res.op = "list" =>
    LET ipas == { x \in outDir : x.name.ext = ".ipa" } IN
    /\ res.status = 200 /\ res.success
    /\ Len(res.files) = Cardinality(ipas)
    /\ { [name |-> res.files[i].name, size |-> res.files[i].size,
          birth |-> res.files[i].created] : i \in DOMAIN res.files } = ipas
    /\ \A i, j \in DOMAIN res.files : i < j => res.files[i].created >= res.files[j].created

\* a listing of two artifacts made at different times, beside a file that is
\* no IPA and after one request has been answered
C15_Witness ==
  /\ res.op = "list" /\ Len(res.files) = 2
  /\ res.files[1].created > res.files[2].created
  /\ \E x \in outDir : x.name.ext # ".ipa"
  /\ \E r \in Reqs : Answered(r)

\* C16: under any interleaving of list, delete and in-flight sign requests a
\* list is answered with success and a delete with success or 404, never with
\* 500, and a list holds no file that was deleted before it began.
C16_RegistryNever500 ==
  /\ res.op = "list" =>
       /\ res.status = 200
       /\ \A i \in DOMAIN res.files : existsOut(res.files[i].name)
  /\ res.op = "delete" => res.status \in {200, 404}

\* C17: the command run for a /api/sign request is the tool followed, in this
\* order, by -k <certificate path>, -p <password> iff the password is not
\* empty, -m <profile path>, -b <bundleId> iff the bundleId is not empty,
\* -o <output path>, and the input package path last, the three input paths
\* being the stored paths of the request's certificate, provision and ipa files.
C17_CommandArguments ==
  res.op = "exec" =>
    LET r == res.to
        opt(t) == <<Word(t)>>
        file(f) == <<PathText([dir |-> req[r].files[f].dir, name |-> req[r].files[f].name])>>
        out == <<PathText([dir |-> OUTPUT_DIR, name |-> req[r].outName])>>
    IN res.argv =
         <<<<ZSIGN_PATH>>, opt("-k"), file("certificate")>>
         \o (IF res.password # <<>> THEN <<opt("-p"), res.password>> ELSE <<>>)
         \o <<opt("-m"), file("provision")>>
         \o (IF res.bundleId # <<>> THEN <<opt("-b"), res.bundleId>> ELSE <<>>)
         \o <<opt("-o"), out, file("ipa")>>

\* C18: for an artifact file name f, the downloadUrl of the sign response, the
\* downloadUrl of f's entry in a listing and the url of the one
\* software-package asset of the manifest of f are all <domain>/output/f, and
\* the installUrl of the sign response embeds the URL-encoded address
\* <domain>/api/manifest/f. (The file names that occur hold letters, digits,
\* "." and "_" only, which URL-encoding keeps.)
C18_AddressesAgree ==
  /\ (res.op = "sign" /\ res.success) =>
       /\ res.downloadUrl = [domain |-> Domain, route |-> "/output/", file |-> res.fileName]
       /\ res.installUrl =
            [scheme |-> "itms-services://?action=download-manifest&url=",
             url |-> [domain |-> "http%3A%2F%2Flocalhost%3A3000",
                      route |-> "%2Fapi%2Fmanifest%2F", file |-> res.fileName]]
  /\ res.op = "list" =>
       \A i \in DOMAIN res.files :
         res.files[i].downloadUrl =
           [domain |-> Domain, route |-> "/output/", file |-> res.files[i].name]
  /\ res.op = "manifest" =>
       res.assetUrl = [domain |-> Domain, route |-> "/output/", file |-> res.fileName]

\* a sign has just been answered with success for an artifact that is in the
\* output directory and whose manifest can be asked for
C18_Witness ==
  /\ res.op = "sign" /\ res.success
  /\ existsOut(res.fileName) /\ res.fileName \in ManifestParams
  /\ res.installUrl # NoInstall

\* C19: two /api/sign requests whose tool invocations overlap have different
\* output paths, also when their packages have the same original name and they
\* arrive in the same millisecond.
C19_DistinctOutputPaths ==
  \A r, q \in Reqs :
    (r # q /\ req[r].pc = "running" /\ req[q].pc = "running") =>
      req[r].outName # req[q].outName

\* C20: every entry of a listing is the artifact of a sign request that has
\* been answered with success; the output of a sign that is still in progress
\* (not answered yet) is not listed; and a sign whose tool exited nonzero
\* leaves no file at its output path.
C20_ListedMeansSigned ==
  /\ res.op = "list" =>
       \A i \in DOMAIN res.files :
         \E r \in Reqs : /\ Answered(r) /\ req[r].invoked > 0 /\ req[r].exit = 0
                         /\ req[r].outName = res.files[i].name
  /\ \A r \in Reqs :
       (Answered(r) /\ req[r].invoked > 0 /\ req[r].exit # 0
          /\ \A q \in Reqs \ {r} : req[q].outName # req[r].outName) =>
         ~ existsOut(req[r].outName)
====
